---- MODULE Spec2Model ----
(***************************************************************************)
(* Model of src/utils.rs of the mosse-tracker crate: preprocess,           *)
(* window_crop, to_imgbuf, index_to_coords, rotated_frames, scaled_frames. *)
(*                                                                         *)
(* Numbers.  f32 values of preprocess are kept in fixed point (FixedScale  *)
(* units per 1.0).  The cosine-window factor sin(pi*n/d) is kept exactly:  *)
(* on [0, pi] the sine is a strictly increasing function of the "tent"     *)
(* 1 - |2n/d - 1|, so the rational tent value decides equality, order and  *)
(* zero of the sine; a zero denominator gives NaN as 0.0/0.0 does in f32.  *)
(* Rounding of f32 is not modelled.  u32 values are words of UMax + 1      *)
(* values (TLC integers are 32-bit signed, so the word is one bit short of *)
(* the source's).                                                          *)
(***************************************************************************)
EXTENDS Integers, Sequences, FiniteSets, TLC

\* ---------------------------------------------------------------- bounds
MaxW == 3
MaxH == 4
MaxSpots == 1
MaxWin == 4
MaxCenter == 4
MaxIndex == 12
MaxBuf == 5
UMax == 1073741823

\* ------------------------------------------------------------- constants
FixedScale == 1000
LN2 == 693

Intensities == {0, 1, 255}
BufValues == {-1500, 0, 2500, 300000}

VARIABLES build, pc, fn,
          image, prepped, mean, norm, divided, i, j, position, cwlog,
          cropArgs, cropRet, bufArgs, bufRet, idxArgs, idxRet,
          itFrame, itPos, yielded, exhausted

vars == <<build, pc, fn, image, prepped, mean, norm, divided, i, j, position,
          cwlog, cropArgs, cropRet, bufArgs, bufRet, idxArgs, idxRet,
          itFrame, itPos, yielded, exhausted>>

preVars == <<image, prepped, mean, norm, divided, i, j, position, cwlog>>
cropVars == <<cropArgs, cropRet>>
bufVars == <<bufArgs, bufRet>>
idxVars == <<idxArgs, idxRet>>
itVars == <<itFrame, itPos, yielded, exhausted>>

\* ------------------------------------------------------------- helpers
Abs(n) == IF n < 0 THEN -n ELSE n

Min(a, b) == IF a <= b THEN a ELSE b

None == [some |-> FALSE, v |-> 0]

Some(x) == [some |-> TRUE, v |-> x]

\* u32::checked_rem
checked_rem(a, b) == IF b = 0 THEN None ELSE Some(a % b)

\* u32::checked_sub
checked_sub(a, b) == IF b > a THEN None ELSE Some(a - b)

\* u32::checked_div
checked_div(a, b) == IF b = 0 THEN None ELSE Some(a \div b)

\* u32::saturating_sub
saturating_sub(a, b) == IF b > a THEN 0 ELSE a - b

\* u32 subtraction with overflow checks off
wrapping_sub(a, b) == (a - b + UMax + 1) % (UMax + 1)

\* ------------------------------------------------------------- frames
GrayImage(w, h, data) == [width |-> w, height |-> h, data |-> data]

NoImage == GrayImage(0, 0, <<>>)

RECURSIVE SpotSets(_, _)
SpotSets(n, idx) ==
    IF n = 0 THEN {{}}
    ELSE SpotSets(n - 1, idx) \cup {S \cup {a} : S \in SpotSets(n - 1, idx), a \in idx}

\* Frames of w x h: a background intensity with at most MaxSpots pixels of
\* another intensity; data is the frame's buffer, row-major (index y*w + x).
Frames(w, h) ==
    {GrayImage(w, h, [k \in 1..(w * h) |-> IF k \in S THEN fg ELSE bg]) :
        bg \in Intensities, fg \in Intensities, S \in SpotSets(MaxSpots, 1..(w * h))}

\* coordinates of the k-th pixel (k from 0) that image.pixels() yields
PixelCoords(width, k) == [x |-> k % width, y |-> k \div width]

\* ------------------------------------------------------------- f32 model
RECURSIVE Ln(_)
\* natural logarithm of a power of two, fixed point
Ln(n) == IF n <= 1 THEN 0 ELSE LN2 + Ln(n \div 2)

RECURSIVE SeqSum(_)
SeqSum(s) == IF s = <<>> THEN 0 ELSE Head(s) + SeqSum(Tail(s))

RECURSIVE SqrtSearch(_, _, _)
SqrtSearch(n, lo, hi) ==
    IF lo >= hi THEN lo
    ELSE LET mid == (lo + hi + 1) \div 2
         IN IF mid * mid <= n THEN SqrtSearch(n, mid, hi)
            ELSE SqrtSearch(n, lo, mid - 1)

\* square root of a value in FixedScale^2 units, result in FixedScale units
Sqrt(u) == SqrtSearch(u, 0, 46340)

NaN == [nan |-> TRUE, num |-> 0, den |-> 1]

One == [nan |-> FALSE, num |-> 1, den |-> 1]

\* sin(pi * n / d) for 0 <= n <= d, as its tent value; 0/0 is NaN
SinPi(n, d) ==
    IF d = 0 THEN NaN
    ELSE [nan |-> FALSE, num |-> d - Abs(2 * n - d), den |-> d]

FLeq(a, b) == a.num * b.den <= b.num * a.den

FEq(a, b) == a.nan = b.nan /\ (a.nan \/ a.num * b.den = b.num * a.den)

\* f32::min: a NaN operand is ignored
FMin(a, b) ==
    IF a.nan THEN b
    ELSE IF b.nan THEN a
    ELSE IF FLeq(a, b) THEN a ELSE b

\* an element of the feature vector: the product win * val
Elem(val) == [val |-> val, win |-> One]

Mul(w, e) == [val |-> e.val, win |-> w]

IsZero(e) == ~e.win.nan /\ (e.val = 0 \/ e.win.num = 0)

IsNaN(e) == e.win.nan

\* ------------------------------------------------------------- preprocess
\* lines 6-12: ln(p + 1) of every pixel, in pixels() order
Collect(img) == [k \in 1..Len(img.data) |-> Ln(img.data[k] + 1)]

\* lines 15-16: the image-wide mean
Mean(v) == SeqSum(v) \div Len(v)

\* line 17
SubtractMean(v, m) == [k \in 1..Len(v) |-> v[k] - m]

\* Norm with an epsilon added, so it is never zero
Norm_Epsilon(v) == Sqrt(SeqSum([k \in 1..Len(v) |-> v[k] * v[k]])) + 1

\* lines 20-21
Norm(v) == Sqrt(SeqSum([k \in 1..Len(v) |-> v[k] * v[k]]))

\* line 23
DivideByNorm(v, n) == [k \in 1..Len(v) |-> (v[k] * FixedScale) \div n]

\* lines 31-33: the multiplier of loop iteration (ii, jj)
CosineWindow(ii, jj, width, height) ==
    FMin(SinPi(ii, width - 1), SinPi(jj, height - 1))

\* the position counter advanced by two
NextPosition_Skip(p) == p + 2

\* line 34
NextPosition(p) == p + 1

\* the (i, j) of the iteration after (ii, jj) of the nested loops of lines 29-30
NextIJ(ii, jj, height) ==
    IF jj + 1 < height THEN <<ii, jj + 1>> ELSE <<ii + 1, 0>>

PreprocessInit ==
    /\ image = NoImage /\ prepped = <<>> /\ mean = 0 /\ norm = 0
    /\ divided = FALSE /\ i = 0 /\ j = 0 /\ position = 0 /\ cwlog = <<>>

\* preprocess is called: lines 6-12
Preprocess_Collect ==
    /\ pc = "idle"
    /\ \E w \in 1..MaxW, h \in 1..MaxH : \E img \in Frames(w, h) :
          /\ image' = img
          /\ prepped' = [k \in 1..(w * h) |-> Elem(Collect(img)[k])]
    /\ fn' = "preprocess"
    /\ pc' = "mean"
    /\ UNCHANGED <<build, mean, norm, divided, i, j, position, cwlog>>
    /\ UNCHANGED <<cropVars, bufVars, idxVars, itVars>>

Vals(p) == [k \in 1..Len(p) |-> p[k].val]

\* lines 15-17
Preprocess_Mean ==
    /\ pc = "mean"
    /\ mean' = Mean(Vals(prepped))
    /\ prepped' = [k \in 1..Len(prepped) |->
                      Elem(SubtractMean(Vals(prepped), mean')[k])]
    /\ pc' = "norm"
    /\ UNCHANGED <<build, fn, image, norm, divided, i, j, position, cwlog>>
    /\ UNCHANGED <<cropVars, bufVars, idxVars, itVars>>

\* lines 20-24 and 27-28
Preprocess_Norm ==
    /\ pc = "norm"
    /\ norm' = Norm(Vals(prepped))
    /\ IF norm' # 0
         THEN /\ prepped' = [k \in 1..Len(prepped) |->
                                Elem(DivideByNorm(Vals(prepped), norm')[k])]
              /\ divided' = TRUE
         ELSE UNCHANGED <<prepped, divided>>
    /\ position' = 0
    /\ i' = 0
    /\ j' = 0
    /\ pc' = "window"
    /\ UNCHANGED <<build, fn, image, mean, cwlog>>
    /\ UNCHANGED <<cropVars, bufVars, idxVars, itVars>>

\* one iteration of the loops of lines 29-36
Preprocess_Window ==
    /\ pc = "window"
    /\ i < image.width
    /\ LET cww == SinPi(i, image.width - 1)
           cwh == SinPi(j, image.height - 1)
       IN IF position < Len(prepped)
            THEN /\ prepped' = [prepped EXCEPT ![position + 1] =
                                   Mul(CosineWindow(i, j, image.width, image.height), @)]
                 /\ cwlog' = Append(cwlog, [pos |-> position, i |-> i, j |-> j,
                                            cww |-> cww, cwh |-> cwh])
                 /\ position' = NextPosition(position)
                 /\ i' = NextIJ(i, j, image.height)[1]
                 /\ j' = NextIJ(i, j, image.height)[2]
                 /\ pc' = "window"
            ELSE \* index out of bounds
                 /\ pc' = "panic"
                 /\ UNCHANGED <<prepped, cwlog, position, i, j>>
    /\ UNCHANGED <<build, fn, image, mean, norm, divided>>
    /\ UNCHANGED <<cropVars, bufVars, idxVars, itVars>>

\* line 38
Preprocess_Return ==
    /\ pc = "window"
    /\ i >= image.width
    /\ pc' = "done"
    /\ UNCHANGED <<build, fn, preVars, cropVars, bufVars, idxVars, itVars>>

\* ------------------------------------------------------------- window_crop
\* the `-` of lines 52 and 56: panics on overflow when the build checks
\* overflow (debug profile), wraps when it does not (release profile)
Sub(a, b, bld) ==
    IF b > a /\ bld = "debug" THEN None ELSE Some(wrapping_sub(a, b))

\* Corner without the clamp to dimension - window
Corner_NoClamp(c, window, dimension, bld) ==
    IF Sub(dimension, window, bld).some
      THEN Some(saturating_sub(c, window \div 2))
      ELSE None

\* lines 49-52 and 53-56: one coordinate of the crop's top-left corner
Corner(c, window, dimension, bld) ==
    IF Sub(dimension, window, bld).some
      THEN Some(Min(saturating_sub(c, window \div 2), Sub(dimension, window, bld).v))
      ELSE None

\* image::imageops::crop followed by SubImage::to_image: the rectangle is
\* clamped to the image, and the result has the clamped rectangle's size
crop(img, x, y, width, height) ==
    LET cx == Min(x, img.width)
        cy == Min(y, img.height)
    IN [x |-> cx, y |-> cy,
        width |-> Min(width, img.width - cx),
        height |-> Min(height, img.height - cy)]

\* lines 41-63
window_crop(input_frame, window_width, window_height, center, bld) ==
    LET x == Corner(center[1], window_width, input_frame.width, bld)
        y == Corner(center[2], window_height, input_frame.height, bld)
    IN IF x.some /\ y.some
         THEN [status |-> "ok",
               window |-> crop(input_frame, x.v, y.v, window_width, window_height),
               corner |-> <<x.v, y.v>>]
         ELSE [status |-> "panic",
               window |-> [x |-> 0, y |-> 0, width |-> 0, height |-> 0],
               corner |-> <<0, 0>>]

NoCropArgs == [width |-> 0, height |-> 0, window_width |-> 0, window_height |-> 0,
               center |-> <<0, 0>>]

NoCropRet == [status |-> "none",
              window |-> [x |-> 0, y |-> 0, width |-> 0, height |-> 0],
              corner |-> <<0, 0>>]

Centers == (0..MaxCenter) \cup {UMax}

Call_window_crop ==
    /\ pc = "idle"
    /\ \E w \in 0..MaxW, h \in 0..MaxH, ww \in 0..MaxWin, wh \in 0..MaxWin,
          cx \in Centers, cy \in Centers :
          /\ cropArgs' = [width |-> w, height |-> h, window_width |-> ww,
                          window_height |-> wh, center |-> <<cx, cy>>]
          /\ cropRet' = window_crop(GrayImage(w, h, <<>>), ww, wh, <<cx, cy>>, build)
    /\ fn' = "window_crop"
    /\ pc' = IF cropRet'.status = "ok" THEN "done" ELSE "panic"
    /\ UNCHANGED <<build, preVars, bufVars, idxVars, itVars>>

\* ------------------------------------------------------------- to_imgbuf
\* `as u8` of an f32 (fixed point here): truncates, saturates at 0 and 255
AsU8(c) ==
    IF c <= 0 THEN 0
    ELSE IF c \div FixedScale > 255 THEN 255 ELSE c \div FixedScale

\* ImageBuffer::from_vec: None when the buffer is too small for width x height
from_vec(width, height, buf) ==
    IF width * height <= Len(buf)
      THEN Some(GrayImage(width, height, buf))
      ELSE [some |-> FALSE, v |-> NoImage]

\* lines 65-67
to_imgbuf(buf, width, height) ==
    LET r == from_vec(width, height, [k \in 1..Len(buf) |-> AsU8(buf[k])])
    IN IF r.some THEN [status |-> "ok", img |-> r.v]
       ELSE [status |-> "panic", img |-> NoImage]

NoBufArgs == [len |-> 0, width |-> 0, height |-> 0]

NoBufRet == [status |-> "none", img |-> NoImage]

Call_to_imgbuf ==
    /\ pc = "idle"
    /\ \E n \in 0..MaxBuf, c \in BufValues, w \in 0..MaxW, h \in 0..MaxH :
          /\ bufArgs' = [len |-> n, width |-> w, height |-> h]
          /\ bufRet' = to_imgbuf([k \in 1..n |-> c], w, h)
    /\ fn' = "to_imgbuf"
    /\ pc' = IF bufRet'.status = "ok" THEN "done" ELSE "panic"
    /\ UNCHANGED <<build, preVars, cropVars, idxVars, itVars>>

\* ------------------------------------------------------------- index_to_coords
\* index_to_coords with quotient and remainder exchanged
index_to_coords_Swapped(width, index) ==
    IF width = 0 THEN [status |-> "panic", x |-> 0, y |-> 0]
    ELSE [status |-> "ok", x |-> index \div width, y |-> index % width]

\* index_to_coords with a zero width treated as a single column
index_to_coords_Unchecked(width, index) ==
    IF width = 0 THEN [status |-> "ok", x |-> 0, y |-> index]
    ELSE [status |-> "ok", x |-> index % width, y |-> index \div width]

\* lines 69-78
index_to_coords(width, index) ==
    LET x == checked_rem(index, width)
    IN IF ~x.some THEN [status |-> "panic", x |-> 0, y |-> 0]
       ELSE LET d == checked_sub(index, x.v)
            IN IF ~d.some THEN [status |-> "panic", x |-> 0, y |-> 0]
               ELSE LET y == checked_div(d.v, width)
                    IN IF ~y.some THEN [status |-> "panic", x |-> 0, y |-> 0]
                       ELSE [status |-> "ok", x |-> x.v, y |-> y.v]

NoIdxArgs == [width |-> 0, index |-> 0]

NoIdxRet == [status |-> "none", x |-> 0, y |-> 0]

Widths == (0..MaxW) \cup {UMax}

Indices == (0..MaxIndex) \cup {UMax - 1, UMax}

Call_index_to_coords ==
    /\ pc = "idle"
    /\ \E w \in Widths, n \in Indices :
          /\ idxArgs' = [width |-> w, index |-> n]
          /\ idxRet' = index_to_coords(w, n)
    /\ fn' = "index_to_coords"
    /\ pc' = IF idxRet'.status = "ok" THEN "done" ELSE "panic"
    /\ UNCHANGED <<build, preVars, cropVars, bufVars, itVars>>

\* ------------------------------------------------------------- augmentation
\* the angle list with its last entry missing
ROTATIONS_MissingLast == <<2, -2, 5, -5, 7, -7, 9, -9, 110, -110, 130, -130, 150, -150, 200>>

\* lines 82-85, in hundredths of a radian
ROTATIONS == <<2, -2, 5, -5, 7, -7, 9, -9, 110, -110, 130, -130, 150, -150, 200, -200>>

\* line 105, in hundredths
SCALES == <<80, 90, 110, 120>>

\* imageproc's rotate_about_center: an output image of the input's size
rotate_about_center(frame, theta) ==
    [width |-> frame.width, height |-> frame.height, param |-> theta]

\* imageproc's warp with Projection::scale: an output image of the input's size
warp(frame, scalefactor) ==
    [width |-> frame.width, height |-> frame.height, param |-> scalefactor]

\* the list a generator maps over
Params(f) == IF f = "rotated_frames" THEN ROTATIONS ELSE SCALES

\* the closure of lines 87-99 / 105-118 applied to the n-th list element
Variant(f, frame, n) ==
    IF f = "rotated_frames" THEN rotate_about_center(frame, ROTATIONS[n])
    ELSE warp(frame, SCALES[n])

\* Iterator::next of the Map over the list: the position after a call
NextPos(f, pos) == IF pos < Len(Params(f)) THEN pos + 1 ELSE pos

IteratorInit ==
    /\ itFrame = [width |-> 0, height |-> 0]
    /\ itPos = 0 /\ yielded = <<>> /\ exhausted = FALSE

\* rotated_frames(frame) / scaled_frames(frame): builds the lazy iterator
Call_rotated_frames ==
    /\ pc = "idle"
    /\ \E w \in 1..MaxW, h \in 1..MaxH : itFrame' = [width |-> w, height |-> h]
    /\ fn' = "rotated_frames"
    /\ itPos' = 0 /\ yielded' = <<>> /\ exhausted' = FALSE
    /\ pc' = "iter"
    /\ UNCHANGED <<build, preVars, cropVars, bufVars, idxVars>>

Call_scaled_frames ==
    /\ pc = "idle"
    /\ \E w \in 1..MaxW, h \in 1..MaxH : itFrame' = [width |-> w, height |-> h]
    /\ fn' = "scaled_frames"
    /\ itPos' = 0 /\ yielded' = <<>> /\ exhausted' = FALSE
    /\ pc' = "iter"
    /\ UNCHANGED <<build, preVars, cropVars, bufVars, idxVars>>

\* frames.next() returning Some(frame)
Iterator_Next ==
    /\ pc = "iter"
    /\ itPos < Len(Params(fn))
    /\ yielded' = Append(yielded, Variant(fn, itFrame, itPos + 1))
    /\ itPos' = NextPos(fn, itPos)
    /\ UNCHANGED <<build, pc, fn, itFrame, exhausted>>
    /\ UNCHANGED <<preVars, cropVars, bufVars, idxVars>>

\* frames.next() returning None
Iterator_End ==
    /\ pc = "iter"
    /\ itPos >= Len(Params(fn))
    /\ ~exhausted
    /\ exhausted' = TRUE
    /\ itPos' = NextPos(fn, itPos)
    /\ UNCHANGED <<build, pc, fn, itFrame, yielded>>
    /\ UNCHANGED <<preVars, cropVars, bufVars, idxVars>>

\* the generator is called again on the same frame
Iterator_Restart ==
    /\ pc = "iter"
    /\ itPos > 0
    /\ itPos' = 0 /\ yielded' = <<>> /\ exhausted' = FALSE
    /\ UNCHANGED <<build, pc, fn, itFrame>>
    /\ UNCHANGED <<preVars, cropVars, bufVars, idxVars>>

\* ------------------------------------------------------------- specification
Init ==
    /\ build \in {"debug", "release"}
    /\ pc = "idle"
    /\ fn = "none"
    /\ PreprocessInit
    /\ cropArgs = NoCropArgs /\ cropRet = NoCropRet
    /\ bufArgs = NoBufArgs /\ bufRet = NoBufRet
    /\ idxArgs = NoIdxArgs /\ idxRet = NoIdxRet
    /\ IteratorInit

Next ==
    \/ Preprocess_Collect
    \/ Preprocess_Mean
    \/ Preprocess_Norm
    \/ Preprocess_Window
    \/ Preprocess_Return
    \/ Call_window_crop
    \/ Call_to_imgbuf
    \/ Call_index_to_coords
    \/ Call_rotated_frames
    \/ Call_scaled_frames
    \/ Iterator_Next
    \/ Iterator_End
    \/ Iterator_Restart

Spec == Init /\ [][Next]_vars

\* ------------------------------------------------------------- properties
Max(a, b) == IF a >= b THEN a ELSE b

InCrop == fn = "window_crop"

CropFits ==
    /\ cropArgs.window_width <= cropArgs.width
    /\ cropArgs.window_height <= cropArgs.height

\* C1: when the window fits in the frame, window_crop returns a frame of
\* exactly window_width x window_height for every center, and the corner
\* (min(max(cx - ww/2, 0), W - ww), min(max(cy - wh/2, 0), H - wh)) keeps the
\* crop region inside the source frame.
C1_CropExactAndInside ==
    (InCrop /\ CropFits) =>
        /\ cropRet.status = "ok"
        /\ cropRet.window.width = cropArgs.window_width
        /\ cropRet.window.height = cropArgs.window_height
        /\ cropRet.corner[1] =
              Min(Max(cropArgs.center[1] - cropArgs.window_width \div 2, 0),
                  cropArgs.width - cropArgs.window_width)
        /\ cropRet.corner[2] =
              Min(Max(cropArgs.center[2] - cropArgs.window_height \div 2, 0),
                  cropArgs.height - cropArgs.window_height)
        /\ cropRet.window.x = cropRet.corner[1]
        /\ cropRet.window.y = cropRet.corner[2]
        /\ cropRet.corner[1] + cropArgs.window_width <= cropArgs.width
        /\ cropRet.corner[2] + cropArgs.window_height <= cropArgs.height

\* a fitting, non-empty window whose center lies beyond the frame on both axes
C1_Witness ==
    /\ InCrop /\ CropFits
    /\ cropArgs.window_width > 0 /\ cropArgs.window_height > 0
    /\ cropArgs.window_width < cropArgs.width
    /\ cropArgs.center[1] = UMax
    /\ cropArgs.center[2] > cropArgs.height
    /\ cropRet.status = "ok"

\* C2: a window larger than the frame is rejected, or clamped to the frame's
\* maximum size; frame_dimension - window_dimension never wraps silently into
\* an incorrect crop.
C2_OversizeRejectedOrClamped ==
    (InCrop /\ ~CropFits) =>
        \/ cropRet.status = "panic"
        \/ /\ cropRet.window.width = Min(cropArgs.window_width, cropArgs.width)
           /\ cropRet.window.height = Min(cropArgs.window_height, cropArgs.height)

InPreprocess == fn = "preprocess"

Regular == image.width >= 2 /\ image.height >= 2

OnBorder(p) ==
    \/ p.x = 0 \/ p.x = image.width - 1
    \/ p.y = 0 \/ p.y = image.height - 1

\* C3: for W,H >= 2 the window multiplier applied to buffer element k is that
\* of the coordinates of the pixel read into element k, and every element
\* read from a border pixel is multiplied by 0.
C3_WindowMatchesPixel ==
    (InPreprocess /\ Regular) =>
        \A n \in 1..Len(cwlog) :
            LET k == cwlog[n].pos
                p == PixelCoords(image.width, k)
            IN /\ FEq(prepped[k + 1].win,
                      CosineWindow(p.x, p.y, image.width, image.height))
               /\ OnBorder(p) => prepped[k + 1].win.num = 0

Uniform(img) == \A k \in 1..Len(img.data) : img.data[k] = img.data[1]

\* the mean-subtracted log vector of img is entirely zero
ZeroCentered(img) ==
    LET v == Collect(img)
    IN \A k \in 1..Len(v) : SubtractMean(v, Mean(v))[k] = 0

\* C4: for W,H >= 2 and a frame whose mean-subtracted log vector is zero (a
\* uniform frame), preprocess computes norm 0, skips the division, raises no
\* error and returns the all-zero vector.
C4_UniformFrameZero ==
    (InPreprocess /\ Regular /\ ZeroCentered(image) /\ pc \in {"window", "done", "panic"}) =>
        /\ pc # "panic"
        /\ norm = 0
        /\ ~divided
        /\ \A k \in 1..Len(prepped) : IsZero(prepped[k])

\* a uniform frame of non-zero intensity with an interior pixel, returned
C4_Witness ==
    /\ InPreprocess /\ pc = "done"
    /\ image.width >= 3 /\ image.height >= 3
    /\ Uniform(image) /\ image.data[1] = 255 /\ ZeroCentered(image)
    /\ norm = 0 /\ ~divided

\* C5: for W,H >= 2 the feature vector has length W*H, and the window step's
\* position takes each value 0..W*H-1 exactly once, in range.
C5_LengthAndPosition ==
    (InPreprocess /\ Regular) =>
        /\ pc # "panic"
        /\ Len(prepped) = image.width * image.height
        /\ Len(cwlog) = position
        /\ position <= Len(prepped)
        /\ \A n \in 1..Len(cwlog) : cwlog[n].pos = n - 1
        /\ pc = "done" => position = image.width * image.height

\* a non-square frame whose window loop has run to the end
C5_Witness ==
    /\ InPreprocess /\ pc = "done"
    /\ image.width = 3 /\ image.height = 4
    /\ Len(cwlog) = 12

InIndex == fn = "index_to_coords"

\* C6: for width >= 1, index_to_coords returns x = index mod width and
\* y = (index - x) / width, with x < width and y*width + x = index; index 0
\* gives (0, 0), index width gives (0, 1), index width*height - 1 gives
\* (width-1, height-1).
C6_IndexToCoords ==
    (InIndex /\ idxArgs.width >= 1) =>
        /\ idxRet.status = "ok"
        /\ idxRet.x = idxArgs.index % idxArgs.width
        /\ idxRet.y = (idxArgs.index - idxRet.x) \div idxArgs.width
        /\ idxRet.x < idxArgs.width
        /\ idxRet.y * idxArgs.width + idxRet.x = idxArgs.index
        /\ idxArgs.index = 0 => (idxRet.x = 0 /\ idxRet.y = 0)
        /\ idxArgs.index = idxArgs.width => (idxRet.x = 0 /\ idxRet.y = 1)
        /\ idxArgs.width <= MaxW =>
              \A h \in 1..MaxIndex :
                  idxArgs.index = idxArgs.width * h - 1 =>
                      (idxRet.x = idxArgs.width - 1 /\ idxRet.y = h - 1)

\* the last index of a 3 x 4 buffer
C6_Witness ==
    /\ InIndex /\ idxArgs.width = 3 /\ idxArgs.index = 11
    /\ idxRet.status = "ok" /\ idxRet.y = 3

\* C7: index_to_coords(0, index) fails for every index and returns no
\* coordinates.
C7_ZeroWidthFails ==
    (InIndex /\ idxArgs.width = 0) => (idxRet.status = "panic" /\ pc = "panic")

C7_Witness ==
    /\ InIndex /\ idxArgs.width = 0 /\ idxArgs.index > 0
    /\ idxRet.status = "panic"

InImgbuf == fn = "to_imgbuf"

\* C8: to_imgbuf succeeds, with a frame of (width, height), exactly when
\* len(buf) = width*height; a shorter or longer buffer fails.
C8_ExactLength ==
    InImgbuf =>
        /\ bufRet.status = "ok" <=> bufArgs.len = bufArgs.width * bufArgs.height
        /\ bufRet.status = "ok" =>
              (bufRet.img.width = bufArgs.width /\ bufRet.img.height = bufArgs.height)

InIterator == fn \in {"rotated_frames", "scaled_frames"}

C10_DegenerateWindowPolicy ==
    (InPreprocess /\ (image.width = 1 \/ image.height = 1)) =>
        \/ pc = "panic"
        \/ \A n \in 1..Len(cwlog) : ~cwlog[n].cww.nan /\ ~cwlog[n].cwh.nan

====
